---- MODULE Spec2Model ----
(***************************************************************************)
(* A model of the OpenApp CLI (src/index.js): the validators, the config  *)
(* store (~/.openapprc.json), the shortcut table, the browser launch and  *)
(* the command handlers.                                                  *)
(*                                                                        *)
(* Strings are sequences of one-character strings, so that trimming,      *)
(* lower-casing, substring tests and URL parsing are computed rather than *)
(* assumed.  A JSON value is a record tagged by t: "null", "num", "str",  *)
(* "arr" (the empty array) or "obj" (m: a function from keys to values).  *)
(***************************************************************************)
EXTENDS Integers, Sequences, FiniteSets, TLC

VARIABLES file, proc, launch

vars == <<file, proc, launch>>

(***************************************************************************)
(* Characters and strings                                                  *)
(***************************************************************************)
UpperChars == <<"A", "B", "C", "D", "E", "F", "G", "H", "I", "J", "K", "L", "M", "N", "O", "P",
        "Q", "R", "S", "T", "U", "V", "W", "X", "Y", "Z">>

LowerChars == <<"a", "b", "c", "d", "e", "f", "g", "h", "i", "j", "k", "l", "m", "n", "o", "p",
        "q", "r", "s", "t", "u", "v", "w", "x", "y", "z">>

DigitChars == <<"0", "1", "2", "3", "4", "5", "6", "7", "8", "9">>

Range(s) == {s[i] : i \in 1..Len(s)}

UpperSet == Range(UpperChars)

LowerSet == Range(LowerChars)

DigitSet == Range(DigitChars)

LowerOf == [c \in UpperSet |-> LowerChars[CHOOSE i \in 1..Len(UpperChars) : UpperChars[i] = c]]

\* String.prototype.toLowerCase on one ASCII character
LowerChar(c) == IF c \in UpperSet THEN LowerOf[c] ELSE c

toLowerCase(s) == [i \in 1..Len(s) |-> LowerChar(s[i])]

IsSpace(c) == c = " "

RECURSIVE TrimStart(_)
TrimStart(s) == IF s # <<>> /\ IsSpace(Head(s)) THEN TrimStart(Tail(s)) ELSE s

RECURSIVE TrimEnd(_)
TrimEnd(s) ==
    IF s # <<>> /\ IsSpace(s[Len(s)]) THEN TrimEnd(SubSeq(s, 1, Len(s) - 1)) ELSE s

\* String.prototype.trim: drops the leading and the trailing white space
trim(s) == TrimEnd(TrimStart(s))

\* pat occurs in s as a substring
Contains(s, pat) ==
    \E i \in 1..(Len(s) - Len(pat) + 1) : SubSeq(s, i, i + Len(pat) - 1) = pat

\* the first index of s holding a character of set cs, or 0
IndexOfAny(s, cs) ==
    LET hits == {i \in 1..Len(s) : s[i] \in cs}
    IN  IF hits = {} THEN 0 ELSE CHOOSE i \in hits : \A j \in hits : i <= j

RECURSIVE Flatten(_)
Flatten(ss) == IF ss = <<>> THEN <<>> ELSE Head(ss) \o Flatten(Tail(ss))

(***************************************************************************)
(* Tables                                                                  *)
(***************************************************************************)
BUILT_IN_SHORTCUTS ==
    (<<"y", "o", "u", "t", "u", "b", "e">> :> <<"h", "t", "t", "p", "s", ":", "/", "/", "w", "w",
            "w", ".", "y", "o", "u", "t", "u", "b", "e", ".", "c", "o", "m">>) @@
    (<<"f", "a", "c", "e", "b", "o", "o", "k">> :> <<"h", "t", "t", "p", "s", ":", "/", "/", "w",
            "w", "w", ".", "f", "a", "c", "e", "b", "o", "o", "k", ".", "c", "o", "m">>) @@
    (<<"t", "w", "i", "t", "t", "e", "r">> :> <<"h", "t", "t", "p", "s", ":", "/", "/", "w", "w",
            "w", ".", "t", "w", "i", "t", "t", "e", "r", ".", "c", "o", "m">>) @@
    (<<"x">> :> <<"h", "t", "t", "p", "s", ":", "/", "/", "w", "w", "w", ".", "x", ".", "c", "o",
            "m">>) @@
    (<<"i", "n", "s", "t", "a", "g", "r", "a", "m">> :> <<"h", "t", "t", "p", "s", ":", "/", "/",
            "w", "w", "w", ".", "i", "n", "s", "t", "a", "g", "r", "a", "m", ".", "c", "o",
            "m">>) @@
    (<<"l", "i", "n", "k", "e", "d", "i", "n">> :> <<"h", "t", "t", "p", "s", ":", "/", "/", "w",
            "w", "w", ".", "l", "i", "n", "k", "e", "d", "i", "n", ".", "c", "o", "m">>) @@
    (<<"r", "e", "d", "d", "i", "t">> :> <<"h", "t", "t", "p", "s", ":", "/", "/", "w", "w", "w",
            ".", "r", "e", "d", "d", "i", "t", ".", "c", "o", "m">>) @@
    (<<"p", "i", "n", "t", "e", "r", "e", "s", "t">> :> <<"h", "t", "t", "p", "s", ":", "/", "/",
            "w", "w", "w", ".", "p", "i", "n", "t", "e", "r", "e", "s", "t", ".", "c", "o",
            "m">>) @@
    (<<"t", "i", "k", "t", "o", "k">> :> <<"h", "t", "t", "p", "s", ":", "/", "/", "w", "w", "w",
            ".", "t", "i", "k", "t", "o", "k", ".", "c", "o", "m">>) @@
    (<<"s", "n", "a", "p", "c", "h", "a", "t">> :> <<"h", "t", "t", "p", "s", ":", "/", "/", "w",
            "w", "w", ".", "s", "n", "a", "p", "c", "h", "a", "t", ".", "c", "o", "m">>) @@
    (<<"g", "m", "a", "i", "l">> :> <<"h", "t", "t", "p", "s", ":", "/", "/", "m", "a", "i", "l",
            ".", "g", "o", "o", "g", "l", "e", ".", "c", "o", "m">>) @@
    (<<"o", "u", "t", "l", "o", "o", "k">> :> <<"h", "t", "t", "p", "s", ":", "/", "/", "o", "u",
            "t", "l", "o", "o", "k", ".", "l", "i", "v", "e", ".", "c", "o", "m">>) @@
    (<<"d", "r", "i", "v", "e">> :> <<"h", "t", "t", "p", "s", ":", "/", "/", "d", "r", "i", "v",
            "e", ".", "g", "o", "o", "g", "l", "e", ".", "c", "o", "m">>) @@
    (<<"d", "o", "c", "s">> :> <<"h", "t", "t", "p", "s", ":", "/", "/", "d", "o", "c", "s", ".",
            "g", "o", "o", "g", "l", "e", ".", "c", "o", "m">>) @@
    (<<"s", "h", "e", "e", "t", "s">> :> <<"h", "t", "t", "p", "s", ":", "/", "/", "s", "h", "e",
            "e", "t", "s", ".", "g", "o", "o", "g", "l", "e", ".", "c", "o", "m">>) @@
    (<<"s", "l", "i", "d", "e", "s">> :> <<"h", "t", "t", "p", "s", ":", "/", "/", "s", "l", "i",
            "d", "e", "s", ".", "g", "o", "o", "g", "l", "e", ".", "c", "o", "m">>) @@
    (<<"c", "a", "l", "e", "n", "d", "a", "r">> :> <<"h", "t", "t", "p", "s", ":", "/", "/", "c",
            "a", "l", "e", "n", "d", "a", "r", ".", "g", "o", "o", "g", "l", "e", ".", "c", "o",
            "m">>) @@
    (<<"n", "o", "t", "i", "o", "n">> :> <<"h", "t", "t", "p", "s", ":", "/", "/", "w", "w", "w",
            ".", "n", "o", "t", "i", "o", "n", ".", "s", "o">>) @@
    (<<"t", "r", "e", "l", "l", "o">> :> <<"h", "t", "t", "p", "s", ":", "/", "/", "t", "r", "e",
            "l", "l", "o", ".", "c", "o", "m">>) @@
    (<<"s", "l", "a", "c", "k">> :> <<"h", "t", "t", "p", "s", ":", "/", "/", "s", "l", "a", "c",
            "k", ".", "c", "o", "m">>) @@
    (<<"d", "i", "s", "c", "o", "r", "d">> :> <<"h", "t", "t", "p", "s", ":", "/", "/", "d", "i",
            "s", "c", "o", "r", "d", ".", "c", "o", "m">>) @@
    (<<"z", "o", "o", "m">> :> <<"h", "t", "t", "p", "s", ":", "/", "/", "z", "o", "o", "m", ".",
            "u", "s">>) @@
    (<<"m", "e", "e", "t">> :> <<"h", "t", "t", "p", "s", ":", "/", "/", "m", "e", "e", "t", ".",
            "g", "o", "o", "g", "l", "e", ".", "c", "o", "m">>) @@
    (<<"t", "e", "a", "m", "s">> :> <<"h", "t", "t", "p", "s", ":", "/", "/", "t", "e", "a", "m",
            "s", ".", "m", "i", "c", "r", "o", "s", "o", "f", "t", ".", "c", "o", "m">>) @@
    (<<"g", "i", "t", "h", "u", "b">> :> <<"h", "t", "t", "p", "s", ":", "/", "/", "g", "i", "t",
            "h", "u", "b", ".", "c", "o", "m">>) @@
    (<<"g", "i", "t", "l", "a", "b">> :> <<"h", "t", "t", "p", "s", ":", "/", "/", "g", "i", "t",
            "l", "a", "b", ".", "c", "o", "m">>) @@
    (<<"b", "i", "t", "b", "u", "c", "k", "e", "t">> :> <<"h", "t", "t", "p", "s", ":", "/", "/",
            "b", "i", "t", "b", "u", "c", "k", "e", "t", ".", "o", "r", "g">>) @@
    (<<"s", "t", "a", "c", "k", "o", "v", "e", "r", "f", "l", "o", "w">> :> <<"h", "t", "t", "p",
            "s", ":", "/", "/", "s", "t", "a", "c", "k", "o", "v", "e", "r", "f", "l", "o", "w",
            ".", "c", "o", "m">>) @@
    (<<"n", "p", "m">> :> <<"h", "t", "t", "p", "s", ":", "/", "/", "w", "w", "w", ".", "n", "p",
            "m", "j", "s", ".", "c", "o", "m">>) @@
    (<<"c", "o", "d", "e", "p", "e", "n">> :> <<"h", "t", "t", "p", "s", ":", "/", "/", "c", "o",
            "d", "e", "p", "e", "n", ".", "i", "o">>) @@
    (<<"c", "o", "d", "e", "s", "a", "n", "d", "b", "o", "x">> :> <<"h", "t", "t", "p", "s", ":",
            "/", "/", "c", "o", "d", "e", "s", "a", "n", "d", "b", "o", "x", ".", "i", "o">>) @@
    (<<"v", "e", "r", "c", "e", "l">> :> <<"h", "t", "t", "p", "s", ":", "/", "/", "v", "e", "r",
            "c", "e", "l", ".", "c", "o", "m">>) @@
    (<<"n", "e", "t", "l", "i", "f", "y">> :> <<"h", "t", "t", "p", "s", ":", "/", "/", "w", "w",
            "w", ".", "n", "e", "t", "l", "i", "f", "y", ".", "c", "o", "m">>) @@
    (<<"n", "e", "t", "f", "l", "i", "x">> :> <<"h", "t", "t", "p", "s", ":", "/", "/", "w", "w",
            "w", ".", "n", "e", "t", "f", "l", "i", "x", ".", "c", "o", "m">>) @@
    (<<"p", "r", "i", "m", "e">> :> <<"h", "t", "t", "p", "s", ":", "/", "/", "w", "w", "w", ".",
            "p", "r", "i", "m", "e", "v", "i", "d", "e", "o", ".", "c", "o", "m">>) @@
    (<<"h", "o", "t", "s", "t", "a", "r">> :> <<"h", "t", "t", "p", "s", ":", "/", "/", "w", "w",
            "w", ".", "h", "o", "t", "s", "t", "a", "r", ".", "c", "o", "m">>) @@
    (<<"s", "p", "o", "t", "i", "f", "y">> :> <<"h", "t", "t", "p", "s", ":", "/", "/", "o", "p",
            "e", "n", ".", "s", "p", "o", "t", "i", "f", "y", ".", "c", "o", "m">>) @@
    (<<"t", "w", "i", "t", "c", "h">> :> <<"h", "t", "t", "p", "s", ":", "/", "/", "w", "w", "w",
            ".", "t", "w", "i", "t", "c", "h", ".", "t", "v">>) @@
    (<<"a", "m", "a", "z", "o", "n">> :> <<"h", "t", "t", "p", "s", ":", "/", "/", "w", "w", "w",
            ".", "a", "m", "a", "z", "o", "n", ".", "c", "o", "m">>) @@
    (<<"f", "l", "i", "p", "k", "a", "r", "t">> :> <<"h", "t", "t", "p", "s", ":", "/", "/", "w",
            "w", "w", ".", "f", "l", "i", "p", "k", "a", "r", "t", ".", "c", "o", "m">>) @@
    (<<"e", "b", "a", "y">> :> <<"h", "t", "t", "p", "s", ":", "/", "/", "w", "w", "w", ".", "e",
            "b", "a", "y", ".", "c", "o", "m">>) @@
    (<<"g", "o", "o", "g", "l", "e">> :> <<"h", "t", "t", "p", "s", ":", "/", "/", "w", "w", "w",
            ".", "g", "o", "o", "g", "l", "e", ".", "c", "o", "m">>) @@
    (<<"b", "i", "n", "g">> :> <<"h", "t", "t", "p", "s", ":", "/", "/", "w", "w", "w", ".", "b",
            "i", "n", "g", ".", "c", "o", "m">>) @@
    (<<"d", "u", "c", "k", "d", "u", "c", "k", "g", "o">> :> <<"h", "t", "t", "p", "s", ":", "/",
            "/", "d", "u", "c", "k", "d", "u", "c", "k", "g", "o", ".", "c", "o", "m">>) @@
    (<<"w", "i", "k", "i", "p", "e", "d", "i", "a">> :> <<"h", "t", "t", "p", "s", ":", "/", "/",
            "w", "w", "w", ".", "w", "i", "k", "i", "p", "e", "d", "i", "a", ".", "o", "r",
            "g">>) @@
    (<<"c", "h", "a", "t", "g", "p", "t">> :> <<"h", "t", "t", "p", "s", ":", "/", "/", "c", "h",
            "a", "t", ".", "o", "p", "e", "n", "a", "i", ".", "c", "o", "m">>) @@
    (<<"c", "l", "a", "u", "d", "e">> :> <<"h", "t", "t", "p", "s", ":", "/", "/", "c", "l", "a",
            "u", "d", "e", ".", "a", "i">>) @@
    (<<"g", "e", "m", "i", "n", "i">> :> <<"h", "t", "t", "p", "s", ":", "/", "/", "g", "e", "m",
            "i", "n", "i", ".", "g", "o", "o", "g", "l", "e", ".", "c", "o", "m">>) @@
    (<<"p", "e", "r", "p", "l", "e", "x", "i", "t", "y">> :> <<"h", "t", "t", "p", "s", ":", "/",
            "/", "w", "w", "w", ".", "p", "e", "r", "p", "l", "e", "x", "i", "t", "y", ".", "a",
            "i">>) @@
    (<<"h", "a", "c", "k", "e", "r", "n", "e", "w", "s">> :> <<"h", "t", "t", "p", "s", ":", "/",
            "/", "n", "e", "w", "s", ".", "y", "c", "o", "m", "b", "i", "n", "a", "t", "o", "r",
            ".", "c", "o", "m">>) @@
    (<<"m", "e", "d", "i", "u", "m">> :> <<"h", "t", "t", "p", "s", ":", "/", "/", "m", "e", "d",
            "i", "u", "m", ".", "c", "o", "m">>) @@
    (<<"d", "e", "v", "t", "o">> :> <<"h", "t", "t", "p", "s", ":", "/", "/", "d", "e", "v", ".",
            "t", "o">>)

\* the own property names of BROWSERS
BrowserIds ==
    {<<"c", "h", "r", "o", "m", "e">>, <<"f", "i", "r", "e", "f", "o", "x">>, <<"s", "a", "f", "a",
            "r", "i">>, <<"e", "d", "g", "e">>, <<"b", "r", "a", "v", "e">>, <<"o", "p", "e", "r",
            "a">>, <<"d", "e", "f", "a", "u", "l", "t">>}

NoApp == <<>>

\* BROWSERS with edge mapped to its own name instead of msedge
BROWSERS_EdgeName(browserName) ==
    IF browserName \in {<<"c", "h", "r", "o", "m", "e">>, <<"f", "i", "r", "e", "f", "o", "x">>,
            <<"s", "a", "f", "a", "r", "i">>, <<"e", "d", "g", "e">>, <<"b", "r", "a", "v", "e">>,
            <<"o", "p", "e", "r", "a">>}
    THEN browserName ELSE <<>>

\* BROWSERS[browserName]: the app identifier, undefined (NoApp) for `default`
\* and for a name that is no property of the table
BROWSERS(browserName) ==
    CASE browserName = <<"c", "h", "r", "o", "m", "e">>  -> <<"c", "h", "r", "o", "m", "e">>
      [] browserName = <<"f", "i", "r", "e", "f", "o", "x">> -> <<"f", "i", "r", "e", "f", "o",
              "x">>
      [] browserName = <<"s", "a", "f", "a", "r", "i">>  -> <<"s", "a", "f", "a", "r", "i">>
      [] browserName = <<"e", "d", "g", "e">>    -> <<"m", "s", "e", "d", "g", "e">>
      [] browserName = <<"b", "r", "a", "v", "e">>   -> <<"b", "r", "a", "v", "e">>
      [] browserName = <<"o", "p", "e", "r", "a">>   -> <<"o", "p", "e", "r", "a">>
      [] OTHER                    -> NoApp

Ok(v) == [ok |-> TRUE, value |-> v, err |-> "none"]

Err(kind) == [ok |-> FALSE, value |-> <<>>, err |-> kind]

(***************************************************************************)
(* Validators                                                              *)
(***************************************************************************)
dangerousPatterns ==
    {<<"j", "a", "v", "a", "s", "c", "r", "i", "p", "t", ":">>, <<"d", "a", "t", "a", ":">>, <<"v",
            "b", "s", "c", "r", "i", "p", "t", ":">>, <<"f", "i", "l", "e", ":">>, <<"a", "b", "o",
            "u", "t", ":">>, <<"b", "l", "o", "b", ":">>}

\* pattern.test(trimmedUrl) had the patterns no i flag
TestCaseSensitive(pat, s) == Contains(s, pat)

\* pattern.test(trimmedUrl) for a case-insensitive pattern
TestIgnoreCase(pat, s) == Contains(toLowerCase(s), pat)

SchemeChars == LowerSet \cup UpperSet \cup DigitSet \cup {"+", "-", "."}

AlphaChars == LowerSet \cup UpperSet

\* the forbidden host code points among the characters of the model
ForbiddenHostChars == {" ", "#", "%", "/", ":", "<", ">", "?", "@", "[", "]", "^", "|"}

SpecialSchemes == {<<"h", "t", "t", "p">>, <<"h", "t", "t", "p", "s">>, <<"f", "t", "p">>, <<"w",
        "s">>, <<"w", "s", "s">>}

DefaultPort(scheme) ==
    CASE scheme = <<"h", "t", "t", "p">>  -> <<"8", "0">>
      [] scheme = <<"h", "t", "t", "p", "s">> -> <<"4", "4", "3">>
      [] scheme = <<"f", "t", "p">>   -> <<"2", "1">>
      [] scheme = <<"w", "s">>    -> <<"8", "0">>
      [] OTHER             -> <<"4", "4", "3">>

RECURSIVE StripSlashes(_)
StripSlashes(s) ==
    IF s # <<>> /\ Head(s) = "/" THEN StripSlashes(Tail(s)) ELSE s

\* the percent-encoding the URL parser applies to a path or query character
UrlEncodeChar(c) == IF c = " " THEN <<"%", "2", "0">> ELSE <<c>>

UrlEncode(s) == Flatten([i \in 1..Len(s) |-> UrlEncodeChar(s[i])])

\* new URL(input) without a base, for inputs of the shape
\*     scheme ":" ["//"] host [":" port] [path] ["?" query]
\* over letters, digits and " " "!" "(" ")" "+" "-" "." "/" ":" "=" "?" "_":
\* no userinfo, fragment, numeric host, dot segment, and a port written
\* without leading zeros and below 65536.  ok = FALSE is the parser's TypeError.
ParseUrl(input) ==
    LET colon == IndexOfAny(input, {":"})
        NoUrl == [ok |-> FALSE, protocol |-> <<>>, href |-> <<>>]
    IN  IF colon < 2 \/ input[1] \notin AlphaChars
           \/ \E i \in 2..(colon - 1) : input[i] \notin SchemeChars
        THEN NoUrl
        ELSE
        LET scheme == toLowerCase(SubSeq(input, 1, colon - 1))
            rest   == SubSeq(input, colon + 1, Len(input))
        IN  IF scheme \notin SpecialSchemes
            THEN [ok |-> TRUE, protocol |-> scheme, href |-> scheme \o <<":">> \o rest]
            ELSE
            LET after == StripSlashes(rest)
                stop  == IndexOfAny(after, {"/", "?"})
                auth  == IF stop = 0 THEN after ELSE SubSeq(after, 1, stop - 1)
                tail  == IF stop = 0 THEN <<>> ELSE SubSeq(after, stop, Len(after))
                pcol  == IndexOfAny(auth, {":"})
                host  == toLowerCase(IF pcol = 0 THEN auth ELSE SubSeq(auth, 1, pcol - 1))
                port  == IF pcol = 0 THEN <<>> ELSE SubSeq(auth, pcol + 1, Len(auth))
                path  == IF tail = <<>> THEN <<"/">>
                         ELSE IF Head(tail) = "?" THEN <<"/">> \o UrlEncode(tail)
                         ELSE UrlEncode(tail)
            IN  IF host = <<>> \/ \E i \in 1..Len(host) : host[i] \in ForbiddenHostChars
                THEN NoUrl
                ELSE IF \E i \in 1..Len(port) : port[i] \notin DigitSet
                THEN NoUrl
                ELSE [ok |-> TRUE, protocol |-> scheme,
                      href |-> scheme \o <<":", "/", "/">> \o host
                               \o (IF port = <<>> \/ port = DefaultPort(scheme)
                                   THEN <<>> ELSE <<":">> \o port)
                               \o path]

validateUrl(urlString) ==
    IF urlString = <<>> THEN Err("InvalidUrl")
    ELSE
    LET trimmedUrl == trim(urlString)
    IN  IF \E pattern \in dangerousPatterns : TestIgnoreCase(pattern, trimmedUrl)
        THEN Err("DisallowedScheme")
        ELSE
        LET url == ParseUrl(trimmedUrl)
        IN  IF ~url.ok THEN Err("MalformedUrl")
            ELSE IF url.protocol # <<"h", "t", "t", "p">> /\ url.protocol # <<"h", "t", "t", "p",
                    "s">>
            THEN Err("DisallowedScheme")
            ELSE Ok(url.href)

MaxNameLen == 50

NameChars == LowerSet \cup DigitSet \cup {"_", "-"}

reservedNames ==
    {<<"a", "d", "d">>, <<"r", "e", "m", "o", "v", "e">>, <<"l", "i", "s", "t">>, <<"s", "e", "a",
            "r", "c", "h">>, <<"c", "o", "n", "f", "i", "g">>, <<"h", "e", "l", "p">>, <<"v", "e",
            "r", "s", "i", "o", "n">>}

validateShortcutName(name) ==
    IF name = <<>> THEN Err("InvalidName")
    ELSE
    LET trimmedName == toLowerCase(trim(name))
    IN  IF Len(trimmedName) = 0 \/ Len(trimmedName) > MaxNameLen THEN Err("InvalidName")
        ELSE IF \E i \in 1..Len(trimmedName) : trimmedName[i] \notin NameChars
        THEN Err("InvalidName")
        ELSE IF trimmedName \in reservedNames THEN Err("InvalidName")
        ELSE Ok(trimmedName)

validateBrowser(browser) ==
    IF browser = <<>> THEN Err("UnsupportedBrowser")
    ELSE
    LET normalizedBrowser == toLowerCase(trim(browser))
    IN  IF normalizedBrowser \notin BrowserIds THEN Err("UnsupportedBrowser")
        ELSE Ok(normalizedBrowser)

BuiltInNames == DOMAIN BUILT_IN_SHORTCUTS

\* Object.prototype.hasOwnProperty.call(BUILT_IN_SHORTCUTS, name)
IsBuiltIn(name) == name \in BuiltInNames

(***************************************************************************)
(* JSON values and the persisted file                                      *)
(***************************************************************************)
JNull == [t |-> "null"]

JNum(n) == [t |-> "num", n |-> n]

JStr(s) == [t |-> "str", s |-> s]

JArr == [t |-> "arr"]

JObj(m) == [t |-> "obj", m |-> m]

Undefined == [t |-> "undefined"]

EmptyMap == [k \in {} |-> JNull]

\* JavaScript truthiness of a JSON value or undefined
Truthy(v) ==
    CASE v.t = "undefined" -> FALSE
      [] v.t = "null"      -> FALSE
      [] v.t = "num"       -> v.n # 0
      [] v.t = "str"       -> v.s # <<>>
      [] OTHER             -> TRUE

\* v.key: undefined unless v is an object holding the key
GetProp(v, key) ==
    IF v.t = "obj" /\ key \in DOMAIN v.m THEN v.m[key] ELSE Undefined

\* v?.key
GetPropOpt(v, key) ==
    IF v.t \in {"undefined", "null"} THEN Undefined ELSE GetProp(v, key)

RECURSIVE SumOver(_, _)
SumOver(f, keys) ==
    IF keys = {} THEN 0
    ELSE LET k == CHOOSE x \in keys : TRUE
         IN  f[k] + SumOver(f, keys \ {k})

\* the length of JSON.stringify(v, null, 2) at the given indentation; the
\* strings of the model hold no character that JSON escapes
RECURSIVE JsonLen(_, _)
JsonLen(v, indent) ==
    CASE v.t = "null" -> 4
      [] v.t = "num"  -> 1
      [] v.t = "str"  -> Len(v.s) + 2
      [] v.t = "arr"  -> 2
      [] v.t = "obj"  ->
            IF DOMAIN v.m = {} THEN 2
            ELSE LET line == [k \in DOMAIN v.m |->
                                 indent + 2 + Len(k) + 4 + JsonLen(v.m[k], indent + 2)]
                 IN  2 + SumOver(line, DOMAIN v.m) + 2 * (Cardinality(DOMAIN v.m) - 1)
                       + 1 + indent + 1

\* The file ~/.openapprc.json: absent, or len bytes that are the text of
\* the JSON value json when valid, and no JSON text otherwise.
NoFile == [exists |-> FALSE, valid |-> FALSE, json |-> JNull, len |-> 0]

TextOf(json) == [exists |-> TRUE, valid |-> TRUE, json |-> json, len |-> JsonLen(json, 0)]

Garbage(n) == [exists |-> TRUE, valid |-> FALSE, json |-> JNull, len |-> n]

K_customShortcuts == <<"c", "u", "s", "t", "o", "m", "S", "h", "o", "r", "t", "c", "u", "t", "s">>

K_settings == <<"s", "e", "t", "t", "i", "n", "g", "s">>

K_browser == <<"b", "r", "o", "w", "s", "e", "r">>

Config(cs, browser) == [customShortcuts |-> cs, settings |-> [browser |-> browser]]

defaultConfig == Config(JObj(EmptyMap), JStr(<<"d", "e", "f", "a", "u", "l", "t">>))

(***************************************************************************)
(* Config store                                                            *)
(***************************************************************************)
loadConfig(f) ==
    IF ~f.exists THEN defaultConfig
    ELSE IF ~f.valid THEN defaultConfig              \* JSON.parse throws
    ELSE IF f.json.t \notin {"obj", "arr"} THEN defaultConfig
    ELSE LET cs == GetProp(f.json, K_customShortcuts)
             br == GetPropOpt(GetProp(f.json, K_settings), K_browser)
         IN  Config(IF Truthy(cs) THEN cs ELSE JObj(EmptyMap),
                    IF Truthy(br) THEN br ELSE JStr(<<"d", "e", "f", "a", "u", "l", "t">>))

\* JSON.stringify(config, null, 2), as the JSON value the text denotes
Stringify(config) ==
    JObj((K_customShortcuts :> config.customShortcuts) @@
         (K_settings :> JObj(K_browser :> config.settings.browser)))

\* writeFileSync, first half: open(CONFIG_FILE, O_WRONLY | O_CREAT | O_TRUNC)
Truncated(f) == Garbage(0)

\* writeFileSync, second half: the text written at offset 0 of the open file.
\* Bytes another writer left beyond the text stay in the file.
Written(f, json) ==
    IF f.len <= JsonLen(json, 0) THEN TextOf(json) ELSE Garbage(f.len)

\* Object.prototype.hasOwnProperty.call(cs, name), name no array index
HasOwn(cs, name) == cs.t = "obj" /\ name \in DOMAIN cs.m

\* cs[name] = url in strict mode (the file is an ES module), name no array
\* index: a primitive throws TypeError; an array takes a property that
\* JSON.stringify drops; on an object without an own __proto__ property the
\* inherited __proto__ setter ignores a string.
SetProp(cs, name, url) ==
    CASE cs.t = "obj" ->
            IF name = <<"_", "_", "p", "r", "o", "t", "o", "_",
                    "_">> /\ name \notin DOMAIN cs.m THEN Ok(cs)
            ELSE Ok(JObj((name :> JStr(url)) @@ cs.m))
      [] cs.t = "arr" -> Ok(cs)
      [] OTHER        -> Err("TypeError")

\* delete cs[name]
DeleteProp(cs, name) == JObj([k \in DOMAIN cs.m \ {name} |-> cs.m[k]])

\* the own enumerable properties an object spread copies
OwnEntries(cs) == IF cs.t = "obj" THEN cs.m ELSE EmptyMap

\* BUILT_IN_SHORTCUTS with its values as JSON strings
BuiltInTable == [k \in BuiltInNames |-> JStr(BUILT_IN_SHORTCUTS[k])]

getAllShortcuts(f) == OwnEntries(loadConfig(f).customShortcuts) @@ BuiltInTable

(***************************************************************************)
(* Launch                                                                  *)
(***************************************************************************)
incognitoArgs(browserApp) ==
    CASE browserApp = <<"c", "h", "r", "o", "m", "e">>  -> <<<<"-", "-", "i", "n", "c", "o", "g",
            "n", "i", "t", "o">>>>
      [] browserApp = <<"f", "i", "r", "e", "f", "o", "x">> -> <<<<"-", "-", "p", "r", "i", "v",
              "a", "t", "e", "-", "w", "i", "n", "d", "o", "w">>>>
      [] browserApp = <<"s", "a", "f", "a", "r", "i">>  -> <<>>
      [] browserApp = <<"m", "s", "e", "d", "g", "e">>  -> <<<<"-", "-", "i", "n", "p", "r", "i",
              "v", "a", "t", "e">>>>
      [] browserApp = <<"b", "r", "a", "v", "e">>   -> <<<<"-", "-", "i", "n", "c", "o", "g", "n",
              "i", "t", "o">>>>
      [] browserApp = <<"o", "p", "e", "r", "a">>   -> <<<<"-", "-", "p", "r", "i", "v", "a", "t",
              "e">>>>
      [] OTHER                   -> <<>>

NoLaunch == [called |-> FALSE, target |-> <<>>, app |-> NoApp, arguments |-> <<>>]

\* the call open(url, openOptions) that openUrl makes
openCall(f, url, incognito) ==
    LET config      == loadConfig(f)
        browserName == IF config.settings.browser.t = "str"
                       THEN config.settings.browser.s ELSE <<>>
        browserApp  == BROWSERS(browserName)
    IN  [called    |-> TRUE,
         target    |-> url,
         app       |-> browserApp,
         arguments |-> IF browserApp # NoApp /\ incognito
                       THEN incognitoArgs(browserApp) ELSE <<>>]

(***************************************************************************)
(* Invocations.  proc[p] is one invocation of the tool: the command and    *)
(* its arguments, where it stands (pc), the config it is about to save,    *)
(* the URL it is about to open, and, once it has exited, its exit status   *)
(* and the kind of error it printed.  An invocation is split where it      *)
(* touches the file system or the browser, so that two invocations can     *)
(* interleave there.                                                       *)
(***************************************************************************)
Procs == {"p1", "p2"}

Invocation(cmd, a1, a2, inc) ==
    [pc |-> "ready", cmd |-> cmd, arg1 |-> a1, arg2 |-> a2, incognito |-> inc,
     cfg |-> defaultConfig, target |-> <<>>, exit |-> 0, err |-> "none"]

\* process.exit(code), or the handler returning (code 0)
Exited(inv, code, err) ==
    [inv EXCEPT !.pc = "ready", !.cfg = defaultConfig, !.exit = code, !.err = err]

\* the handler has reached saveConfig(config)
Saving(inv, config) == [inv EXCEPT !.pc = "save_open", !.cfg = config]

\* the handler has reached openUrl(url, ...)
Opening(inv, url) == [inv EXCEPT !.pc = "open_url", !.target = url]

\* addAction had it tested the name as typed against the built-in table
addAction_RawCheck(f, name, url) ==
    LET inv == Invocation("add", name, url, FALSE)
        vn  == validateShortcutName(name)
        vu  == validateUrl(url)
    IN  IF ~vn.ok THEN Exited(inv, 1, vn.err)
        ELSE IF ~vu.ok THEN Exited(inv, 1, vu.err)
        ELSE IF IsBuiltIn(name) THEN Exited(inv, 1, "BuiltInConflict")
        ELSE LET config == loadConfig(f)
                 set    == SetProp(config.customShortcuts, vn.value, vu.value)
             IN  IF ~set.ok THEN Exited(inv, 1, set.err)
                 ELSE Saving(inv, [config EXCEPT !.customShortcuts = set.value])

\* openapp add <name> <url>, up to saveConfig
addAction(f, name, url) ==
    LET inv == Invocation("add", name, url, FALSE)
        vn  == validateShortcutName(name)
        vu  == validateUrl(url)
    IN  IF ~vn.ok THEN Exited(inv, 1, vn.err)
        ELSE IF ~vu.ok THEN Exited(inv, 1, vu.err)
        ELSE IF IsBuiltIn(vn.value) THEN Exited(inv, 1, "BuiltInConflict")
        ELSE LET config == loadConfig(f)
                 set    == SetProp(config.customShortcuts, vn.value, vu.value)
             IN  IF ~set.ok THEN Exited(inv, 1, set.err)
                 ELSE Saving(inv, [config EXCEPT !.customShortcuts = set.value])

\* removeAction had it looked the name up before the built-in test
removeAction_NotFoundFirst(f, name) ==
    LET inv == Invocation("remove", name, <<>>, FALSE)
        vn  == validateShortcutName(name)
    IN  IF ~vn.ok THEN Exited(inv, 1, vn.err)
        ELSE LET config == loadConfig(f)
             IN  IF ~HasOwn(config.customShortcuts, vn.value)
                 THEN Exited(inv, 1, "NotFound")
                 ELSE IF IsBuiltIn(vn.value) THEN Exited(inv, 1, "BuiltInConflict")
                 ELSE Saving(inv, [config EXCEPT
                          !.customShortcuts = DeleteProp(config.customShortcuts, vn.value)])

\* openapp remove <name>, up to saveConfig
removeAction(f, name) ==
    LET inv == Invocation("remove", name, <<>>, FALSE)
        vn  == validateShortcutName(name)
    IN  IF ~vn.ok THEN Exited(inv, 1, vn.err)
        ELSE IF IsBuiltIn(vn.value) THEN Exited(inv, 1, "BuiltInConflict")
        ELSE LET config == loadConfig(f)
             IN  IF ~HasOwn(config.customShortcuts, vn.value)
                 THEN Exited(inv, 1, "NotFound")
                 ELSE Saving(inv, [config EXCEPT
                          !.customShortcuts = DeleteProp(config.customShortcuts, vn.value)])

\* openapp config browser <browser>, up to saveConfig
configBrowserAction(f, browser) ==
    LET inv == Invocation("config browser", browser, <<>>, FALSE)
        vb  == validateBrowser(browser)
    IN  IF ~vb.ok THEN Exited(inv, 1, vb.err)
        ELSE LET config == loadConfig(f)
             IN  Saving(inv, [config EXCEPT !.settings.browser = JStr(vb.value)])

\* the reset literal had it kept a browser of its own
resetDefaultConfig_Stale == Config(JObj(EmptyMap), JStr(<<"c", "h", "r", "o", "m", "e">>))

\* the defaultConfig literal of the config reset handler
resetDefaultConfig == Config(JObj(EmptyMap), JStr(<<"d", "e", "f", "a", "u", "l", "t">>))

\* openapp config reset, up to saveConfig
configResetAction ==
    Saving(Invocation("config reset", <<>>, <<>>, FALSE), resetDefaultConfig)

\* openapp <shortcut> [-i], up to openUrl; a stored value is a string in
\* every document of the model
openShortcutAction(f, shortcut, incognito) ==
    LET inv == Invocation("open", shortcut, <<>>, incognito)
        vn  == validateShortcutName(shortcut)
        shortcuts == getAllShortcuts(f)
    IN  IF shortcut = <<>> THEN Exited(inv, 0, "none")       \* program.help()
        ELSE IF ~vn.ok THEN Exited(inv, 1, vn.err)
        ELSE IF vn.value \notin DOMAIN shortcuts THEN Exited(inv, 1, "NotFound")
        ELSE Opening(inv, shortcuts[vn.value].s)

MaxQueryLen == 500

searchEngines ==
    (<<"g", "o", "o", "g", "l", "e">> :> <<"h", "t", "t", "p", "s", ":", "/", "/", "w", "w", "w",
            ".", "g", "o", "o", "g", "l", "e", ".", "c", "o", "m", "/", "s", "e", "a", "r", "c",
            "h", "?", "q", "=">>) @@
    (<<"b", "i", "n", "g">> :> <<"h", "t", "t", "p", "s", ":", "/", "/", "w", "w", "w", ".", "b",
            "i", "n", "g", ".", "c", "o", "m", "/", "s", "e", "a", "r", "c", "h", "?", "q",
            "=">>) @@
    (<<"d", "u", "c", "k", "d", "u", "c", "k", "g", "o">> :> <<"h", "t", "t", "p", "s", ":", "/",
            "/", "d", "u", "c", "k", "d", "u", "c", "k", "g", "o", ".", "c", "o", "m", "/", "?",
            "q", "=">>)

UnreservedChars ==
    LowerSet \cup UpperSet \cup DigitSet
        \cup {"-", "_", ".", "!", "~", "*", "'", "(", ")"}

\* encodeURIComponent on the other ASCII characters of the model
PercentCodes ==
    (" " :> <<"%", "2", "0">>) @@ (":" :> <<"%", "3", "A">>) @@ ("/" :> <<"%", "2",
            "F">>) @@ ("?" :> <<"%", "3", "F">>) @@
    ("=" :> <<"%", "3", "D">>) @@ ("+" :> <<"%", "2", "B">>) @@ ("%" :> <<"%", "2",
            "5">>) @@ ("&" :> <<"%", "2", "6">>)

encodeURIComponent(s) ==
    Flatten([i \in 1..Len(s) |->
                IF s[i] \in UnreservedChars THEN <<s[i]>> ELSE PercentCodes[s[i]]])

\* openapp search <query...> [-i] [-e engine], up to openUrl; queryParts is
\* the query already joined by spaces
searchAction(queryParts, engineOption, incognito) ==
    LET inv    == Invocation("search", queryParts, engineOption, incognito)
        query  == trim(queryParts)
        engine == toLowerCase(engineOption)
    IN  IF query = <<>> THEN Exited(inv, 1, "InvalidQuery")
        ELSE IF Len(query) > MaxQueryLen THEN Exited(inv, 1, "InvalidQuery")
        ELSE IF engine \notin DOMAIN searchEngines THEN Exited(inv, 1, "UnknownEngine")
        ELSE Opening(inv, searchEngines[engine] \o encodeURIComponent(query))

(***************************************************************************)
(* Actions                                                                 *)
(***************************************************************************)
\* openapp add <name> <url>: the handler up to saveConfig or its exit
Add(p, names, urls) ==
    /\ proc[p].pc = "ready"
    /\ \E name \in names, url \in urls :
           proc' = [proc EXCEPT ![p] = addAction(file, name, url)]
    /\ launch' = NoLaunch
    /\ UNCHANGED file

\* openapp remove <name>
Remove(p, names) ==
    /\ proc[p].pc = "ready"
    /\ \E name \in names : proc' = [proc EXCEPT ![p] = removeAction(file, name)]
    /\ launch' = NoLaunch
    /\ UNCHANGED file

\* openapp config browser <browser>
ConfigBrowser(p, browsers) ==
    /\ proc[p].pc = "ready"
    /\ \E browser \in browsers :
           proc' = [proc EXCEPT ![p] = configBrowserAction(file, browser)]
    /\ launch' = NoLaunch
    /\ UNCHANGED file

\* openapp config reset
ConfigReset(p) ==
    /\ proc[p].pc = "ready"
    /\ proc' = [proc EXCEPT ![p] = configResetAction]
    /\ launch' = NoLaunch
    /\ UNCHANGED file

\* openapp config show: loads and prints
ConfigShow(p) ==
    /\ proc[p].pc = "ready"
    /\ proc' = [proc EXCEPT ![p] =
                   Exited(Invocation("config show", <<>>, <<>>, FALSE), 0, "none")]
    /\ launch' = NoLaunch
    /\ UNCHANGED file

\* openapp list: loads and prints the rows
List(p) ==
    /\ proc[p].pc = "ready"
    /\ proc' = [proc EXCEPT ![p] = Exited(Invocation("list", <<>>, <<>>, FALSE), 0, "none")]
    /\ launch' = NoLaunch
    /\ UNCHANGED file

\* openapp <shortcut> [-i]: the handler up to openUrl or its exit
OpenShortcut(p, names) ==
    /\ proc[p].pc = "ready"
    /\ \E shortcut \in names, incognito \in BOOLEAN :
           proc' = [proc EXCEPT ![p] = openShortcutAction(file, shortcut, incognito)]
    /\ launch' = NoLaunch
    /\ UNCHANGED file

\* openapp search <query...> [-i] [-e engine]
Search(p, queries, engines) ==
    /\ proc[p].pc = "ready"
    /\ \E q \in queries, e \in engines, incognito \in BOOLEAN :
           proc' = [proc EXCEPT ![p] = searchAction(q, e, incognito)]
    /\ launch' = NoLaunch
    /\ UNCHANGED file

\* saveConfig: writeFileSync opens the file, which truncates it
SaveOpen(p) ==
    /\ proc[p].pc = "save_open"
    /\ file' = Truncated(file)
    /\ proc' = [proc EXCEPT ![p].pc = "save_write"]
    /\ UNCHANGED launch

\* the open fails (permissions): saveConfig throws, the handler exits 1
SaveOpenFail(p) ==
    /\ proc[p].pc = "save_open"
    /\ proc' = [proc EXCEPT ![p] = Exited(proc[p], 1, "PersistenceError")]
    /\ UNCHANGED <<file, launch>>

\* saveConfig: writeFileSync writes the text and the handler exits 0
SaveWrite(p) ==
    /\ proc[p].pc = "save_write"
    /\ file' = Written(file, Stringify(proc[p].cfg))
    /\ proc' = [proc EXCEPT ![p] = Exited(proc[p], 0, "none")]
    /\ UNCHANGED launch

\* the write fails (disk full) or the process is killed before it
SaveWriteFail(p) ==
    /\ proc[p].pc = "save_write"
    /\ proc' = [proc EXCEPT ![p] = Exited(proc[p], 1, "PersistenceError")]
    /\ UNCHANGED <<file, launch>>

\* openUrl: loads the config, calls open(url, openOptions), which succeeds
OpenUrl(p) ==
    /\ proc[p].pc = "open_url"
    /\ launch' = openCall(file, proc[p].target, proc[p].incognito)
    /\ proc' = [proc EXCEPT ![p] = Exited(proc[p], 0, "none")]
    /\ UNCHANGED file

\* open(url, openOptions) rejects: openUrl throws, the handler exits 1
OpenUrlFail(p) ==
    /\ proc[p].pc = "open_url"
    /\ launch' = openCall(file, proc[p].target, proc[p].incognito)
    /\ proc' = [proc EXCEPT ![p] = Exited(proc[p], 1, "LaunchError")]
    /\ UNCHANGED file

(***************************************************************************)
(* Inputs and initial files                                                *)
(***************************************************************************)
\* how many spaces an input may carry on each side
MaxPad == 1

RECURSIVE Pad(_)
Pad(n) == IF n = 0 THEN <<>> ELSE <<" ">> \o Pad(n - 1)

UpperOf == [c \in LowerSet |-> UpperChars[CHOOSE i \in 1..Len(LowerChars) : LowerChars[i] = c]]

UpperChar(c) == IF c \in LowerSet THEN UpperOf[c] ELSE c

toUpperCase(s) == [i \in 1..Len(s) |-> UpperChar(s[i])]

\* the first letter in upper case
Capitalize(s) == IF s = <<>> THEN s ELSE <<UpperChar(s[1])>> \o Tail(s)

NameInputs == {<<"f", "o", "o">>, <<" ", "B", "a", "r">>, <<" ", "G", "i", "t", "H", "u", "b",
        " ">>, <<"x">>, <<"_", "_", "p", "r", "o", "t", "o", "_", "_">>, <<"a", "!", "b">>}

UrlInputs ==
    {<<"h", "t", "t", "p", "s", ":", "/", "/", "E", "x", "a", "m", "p", "l", "e", ".", "c", "o",
            "m", "/", "P", "a", "t", "h">>, <<" ", "h", "t", "t", "p", ":", "/", "/", "a", ".",
            "i", "o", " ">>, <<"h", "t", "t", "p", "s", ":", "/", "/", "a", ".", "i", "o", "/",
            "?", "q", "=", "d", "a", "t", "a", ":", "1">>, <<"n", "o", "t", " ", "a", " ", "u",
            "r", "l">>}

BrowserInputs ==
    {<<"c", "h", "r", "o", "m", "e">>, <<" ", "F", "i", "r", "e", "f", "o", "x", " ">>, <<"s", "a",
            "f", "a", "r", "i">>, <<"e", "d", "g", "e">>, <<"b", "r", "a", "v", "e">>, <<"o", "p",
            "e", "r", "a">>, <<"d", "e", "f", "a", "u", "l", "t">>,
     <<"n", "e", "t", "s", "c", "a", "p", "e">>}

QueryInputs == {<<"t", "l", "a", " ", "p", "l", "u", "s">>, <<"a", ":", "b", "/", "c", " ", "d",
        "?">>, <<" ", " ">>}

EngineInputs == {<<"g", "o", "o", "g", "l", "e">>, <<"B", "i", "n", "g">>, <<"y", "a", "h", "o",
        "o">>}

\* every built-in name, as it is and in upper case, padded with spaces
BuiltInInputs ==
    {Pad(n) \o s \o Pad(n) :
        s \in BuiltInNames \cup {toUpperCase(k) : k \in BuiltInNames},
        n \in 0..MaxPad}

\* URL inputs: a prefix, a middle and a suffix, padded with spaces; the
\* middles hold every dangerous pattern in three letter cases
UrlMiddles ==
    dangerousPatterns
        \cup {toUpperCase(m) : m \in dangerousPatterns}
        \cup {Capitalize(m) : m \in dangerousPatterns}
        \cup {<<>>, <<"h", "t", "t", "p", ":", "/", "/", "a", ".", "i", "o">>, <<"H", "T", "T",
                "P", "S", ":", "/", "/", "E", "x", "a", "m", "p", "l", "e", ".", "c", "o", "m",
                "/", "P", "a", "t", "h">>, <<"f", "t", "p", ":", "/", "/", "x", ".", "c", "o",
                "m">>,
              <<"m", "a", "i", "l", "t", "o", ":", "b", "o", "b">>, <<"n", "o", "t", " ", "a", " ",
                      "u", "r", "l">>, <<"d", "a", "t", "a">>, <<"h", "t", "t", "p", "s", ":", "/",
                      "/", "a", ".", "i", "o", ":", "4", "4", "3">>, <<"h", "t", "t", "p", ":",
                      "/", "/", "a", ".", "i", "o", ":", "8", "0", "8", "0">>}

UrlPrefixes == {<<>>, <<"h", "t", "t", "p", "s", ":", "/", "/", "a", ".", "i", "o", "/", "?", "q",
        "=">>, <<"x">>}

UrlSuffixes == {<<>>, <<"a", "l", "e", "r", "t", "(", "1", ")">>, <<"/", "x", " ", "y">>}

UrlCases ==
    {Pad(n) \o pre \o mid \o suf \o Pad(n) :
        pre \in UrlPrefixes, mid \in UrlMiddles, suf \in UrlSuffixes, n \in 0..MaxPad}

Doc(cs, browser) == TextOf(Stringify(Config(cs, browser)))

\* what the file may hold before the first invocation: nothing, text that
\* is no JSON, JSON that is no object, and documents edited by hand
InitFiles ==
    { NoFile,
      Garbage(9),
      TextOf(JNum(5)),
      TextOf(JNull),
      TextOf(JArr),
      TextOf(JObj(EmptyMap)),
      TextOf(JObj(K_customShortcuts :> JObj(<<"f", "o", "o">> :> JStr(<<"h", "t", "t", "p", ":",
              "/", "/", "a", ".", "i", "o", "/">>)))),
      TextOf(JObj(K_settings :> JObj(K_browser :> JStr(<<"n", "e", "t", "s", "c", "a", "p",
              "e">>)))),
      TextOf(JObj((K_customShortcuts :> JNull) @@ (K_settings :> JNum(5)))),
      Doc(JNum(5), JStr(<<"c", "h", "r", "o", "m", "e">>)),
      Doc(JArr, JStr(<<"d", "e", "f", "a", "u", "l", "t">>)),
      Doc(JObj(<<"g", "i", "t", "h", "u", "b">> :> JStr(<<"h", "t", "t", "p", "s", ":", "/", "/",
              "e", "v", "i", "l", ".", "e", "x", "a", "m", "p", "l", "e", "/">>)), JStr(<<"d", "e",
              "f", "a", "u", "l", "t">>)),
      Doc(JObj(<<"f", "o", "o">> :> JStr(<<"f", "i", "l", "e", ":", "/", "/", "/", "e", "t", "c",
              "/", "p", "a", "s", "s", "w", "d">>)), JStr(<<"f", "i", "r", "e", "f", "o", "x">>)) }

\* the keys of the customShortcuts object in the file's text, if any
PersistedKeys(f) ==
    IF f.exists /\ f.valid /\ f.json.t = "obj"
       /\ K_customShortcuts \in DOMAIN f.json.m
       /\ f.json.m[K_customShortcuts].t = "obj"
    THEN DOMAIN f.json.m[K_customShortcuts].m
    ELSE {}

CleanFiles == {f \in InitFiles : PersistedKeys(f) \cap BuiltInNames = {}}

SomeFiles ==
    { NoFile, Garbage(9), Doc(JNum(5), JStr(<<"c", "h", "r", "o", "m", "e">>)),
      Doc(JObj(<<"g", "i", "t", "h", "u", "b">> :> JStr(<<"h", "t", "t", "p", "s", ":", "/", "/",
              "e", "v", "i", "l", ".", "e", "x", "a", "m", "p", "l", "e", "/">>)), JStr(<<"d", "e",
              "f", "a", "u", "l", "t">>)) }

IdleProc == Invocation("none", <<>>, <<>>, FALSE)

InitWith(files) ==
    /\ file \in files
    /\ proc = [p \in Procs |-> IdleProc]
    /\ launch = NoLaunch

(***************************************************************************)
(* Specifications                                                          *)
(***************************************************************************)
\* Spec: one invocation at a time, from any file
Init == InitWith(InitFiles)

Next ==
    \/ Add("p1", NameInputs, UrlInputs)
    \/ Remove("p1", NameInputs)
    \/ ConfigBrowser("p1", BrowserInputs)
    \/ ConfigReset("p1")
    \/ ConfigShow("p1")
    \/ List("p1")
    \/ OpenShortcut("p1", NameInputs)
    \/ Search("p1", QueryInputs, EngineInputs)
    \/ SaveOpen("p1")
    \/ SaveOpenFail("p1")
    \/ SaveWrite("p1")
    \/ SaveWriteFail("p1")
    \/ OpenUrl("p1")
    \/ OpenUrlFail("p1")

Spec == Init /\ [][Next]_vars

\* SpecClean: the same, from a file whose custom names are no built-in
InitClean == InitWith(CleanFiles)

SpecClean == InitClean /\ [][Next]_vars

\* SpecFresh: the same, from no file
InitFresh == InitWith({NoFile})

SpecFresh == InitFresh /\ [][Next]_vars

\* SpecUrl: one add with every URL of UrlCases, from no file, up to its save
NextUrl == Add("p1", {<<"f", "o", "o">>}, UrlCases)

SpecUrl == InitFresh /\ [][NextUrl]_vars

\* SpecBuiltIn: add and remove with every name of BuiltInInputs
InitSome == InitWith(SomeFiles)

NextBuiltIn ==
    \/ Add("p1", BuiltInInputs, {<<"h", "t", "t", "p", "s", ":", "/", "/", "E", "x", "a", "m", "p",
            "l", "e", ".", "c", "o", "m", "/", "P", "a", "t", "h">>})
    \/ Remove("p1", BuiltInInputs)

SpecBuiltIn == InitSome /\ [][NextBuiltIn]_vars

\* SpecRace: two invocations at a time, from no file
RaceNames == {<<"f", "o", "o">>, <<"b", "a", "r">>}

RaceUrls == {<<" ", "h", "t", "t", "p", ":", "/", "/", "a", ".", "i", "o", " ">>}

NextRace ==
    \E p \in Procs :
        \/ Add(p, RaceNames, RaceUrls)
        \/ Remove(p, {<<"f", "o", "o">>})
        \/ ConfigBrowser(p, {<<"c", "h", "r", "o", "m", "e">>})
        \/ ConfigReset(p)
        \/ SaveOpen(p)
        \/ SaveOpenFail(p)
        \/ SaveWrite(p)
        \/ SaveWriteFail(p)

SpecRace == InitFresh /\ [][NextRace]_vars

(***************************************************************************)
(* Properties                                                              *)
(***************************************************************************)
\* the name an invocation was given, trimmed and in lower case
NormName(p) == toLowerCase(trim(proc[p].arg1))

Failed(p, kind) == proc[p].pc = "ready" /\ proc[p].exit = 1 /\ proc[p].err = kind

Succeeded(p) == proc[p].pc = "ready" /\ proc[p].exit = 0

\* C1: from a file whose custom names are no built-in, no invocation of any
\* command, failed or not, leaves a built-in name among the keys of the
\* persisted customShortcuts.
C1_Disjoint == PersistedKeys(file) \cap BuiltInNames = {}

\* an add of a built-in name was refused while the file holds custom names
C1_Witness ==
    /\ PersistedKeys(file) # {}
    /\ \E p \in Procs : proc[p].cmd = "add" /\ Failed(p, "BuiltInConflict")

\* C2: an add (with a valid URL) or a remove of a built-in name, in any
\* letter case and padding, exits 1 with BuiltInConflict at once, without a
\* save, and leaves the file as it was, whatever the file holds.
C2_BuiltInProtected ==
    [][\A p \in Procs :
          ( /\ proc'[p] # proc[p]
            /\ proc'[p].cmd \in {"add", "remove"}
            /\ toLowerCase(trim(proc'[p].arg1)) \in BuiltInNames
            /\ proc'[p].cmd = "add" => validateUrl(proc'[p].arg2).ok )
          => ( /\ proc'[p].pc = "ready"
               /\ proc'[p].exit = 1
               /\ proc'[p].err = "BuiltInConflict"
               /\ file' = file )]_vars

\* a remove of " GITHUB " was refused although the file holds a github entry
C2_Witness ==
    /\ <<"g", "i", "t", "h", "u", "b">> \in PersistedKeys(file)
    /\ \E p \in Procs :
          /\ proc[p].cmd = "remove"
          /\ proc[p].arg1 = <<" ", "G", "I", "T", "H", "U", "B", " ">>
          /\ Failed(p, "BuiltInConflict")

\* C3: after a successful add of a valid name n that is no built-in with a
\* valid URL u, getAllShortcuts maps the normalized n to validateUrl(u).
C3_RoundTrip ==
    \A p \in Procs :
        (proc[p].cmd = "add" /\ Succeeded(p))
        => LET shortcuts == getAllShortcuts(file)
           IN  /\ NormName(p) \in DOMAIN shortcuts
               /\ shortcuts[NormName(p)] = JStr(validateUrl(proc[p].arg2).value)

TheDefaultDocument ==
    [customShortcuts |-> JObj(EmptyMap), settings |-> [browser |-> JStr(<<"d", "e", "f", "a", "u",
            "l", "t">>)]]

\* C4: after a successful config reset the next load returns exactly the
\* default document, and the shortcut table is the built-in table, whatever
\* the file held before.
C4_ResetGivesDefaults ==
    \A p \in Procs :
        (proc[p].cmd = "config reset" /\ Succeeded(p))
        => /\ loadConfig(file) = TheDefaultDocument
           /\ getAllShortcuts(file) = BuiltInTable

\* a config reset has succeeded
C4_Witness ==
    /\ \E p \in Procs : proc[p].cmd = "config reset" /\ Succeeded(p)
    /\ file = TextOf(Stringify(TheDefaultDocument))

\* C5: the content of the file never makes the calling operation fail: an
\* add of a valid name that is no built-in with a valid URL fails only when
\* the save does.
C5_LoadNeverFailsCaller ==
    \A p \in Procs :
        ( /\ proc[p].cmd = "add"
          /\ validateShortcutName(proc[p].arg1).ok
          /\ NormName(p) \notin BuiltInNames
          /\ validateUrl(proc[p].arg2).ok
          /\ proc[p].pc = "ready" )
        => (proc[p].exit = 0 \/ proc[p].err = "PersistenceError")

\* C6: every step leaves in the file the complete document it held or the
\* complete document an invocation is saving.
C6_SaveAtomic ==
    [][file' = file \/ \E p \in Procs : file' = TextOf(Stringify(proc[p].cfg))]_vars

Markers == {<<"j", "a", "v", "a", "s", "c", "r", "i", "p", "t", ":">>, <<"d", "a", "t", "a", ":">>,
        <<"v", "b", "s", "c", "r", "i", "p", "t", ":">>, <<"f", "i", "l", "e", ":">>, <<"a", "b",
        "o", "u", "t", ":">>, <<"b", "l", "o", "b", ":">>}

HasMarker(u) == \E m \in Markers : Contains(toLowerCase(u), m)

\* C7: add's URL, when not empty, is refused with DisallowedScheme if it
\* holds a marker in any letter case anywhere; otherwise with MalformedUrl
\* if the parser rejects it, with DisallowedScheme if the parsed scheme is
\* not http or https; otherwise the parser's serialization is what is stored.
C7_ValidateUrl ==
    \A p \in Procs :
        proc[p].cmd = "add"
        => LET u == proc[p].arg2
               r == ParseUrl(trim(u))
           IN  IF u = <<>> THEN Failed(p, "InvalidUrl")
               ELSE IF HasMarker(u) THEN Failed(p, "DisallowedScheme")
               ELSE IF ~r.ok THEN Failed(p, "MalformedUrl")
               ELSE IF r.protocol \notin {<<"h", "t", "t", "p">>, <<"h", "t", "t", "p", "s">>}
               THEN Failed(p, "DisallowedScheme")
               ELSE /\ proc[p].pc = "save_open"
                    /\ proc[p].cfg.customShortcuts = JObj(<<"f", "o", "o">> :> JStr(r.href))

\* a URL that would parse as https is refused for the marker in its query
C7_Witness ==
    \E p \in Procs :
        /\ proc[p].arg2 = <<"h", "t", "t", "p", "s", ":", "/", "/", "a", ".", "i", "o", "/", "?",
                "q", "=", "D", "a", "t", "a", ":", "a", "l", "e", "r", "t", "(", "1", ")">>
        /\ ParseUrl(proc[p].arg2).ok
        /\ ParseUrl(proc[p].arg2).protocol = <<"h", "t", "t", "p", "s">>
        /\ Failed(p, "DisallowedScheme")

ExpectedPrivateArg ==
    (<<"c", "h", "r", "o", "m", "e">> :> <<"-", "-", "i", "n", "c", "o", "g", "n", "i", "t",
            "o">>) @@ (<<"f", "i", "r", "e", "f", "o", "x">> :> <<"-", "-", "p", "r", "i", "v",
            "a", "t", "e", "-", "w", "i", "n", "d", "o", "w">>) @@
    (<<"e", "d", "g", "e">> :> <<"-", "-", "i", "n", "p", "r", "i", "v", "a", "t",
            "e">>) @@ (<<"b", "r", "a", "v", "e">> :> <<"-", "-", "i", "n", "c", "o", "g", "n",
            "i", "t", "o">>) @@
    (<<"o", "p", "e", "r", "a">> :> <<"-", "-", "p", "r", "i", "v", "a", "t", "e">>)

\* C8: an invocation that reached openUrl has called open; for a browser
\* setting among the seven, the call names no app iff the setting is
\* default, and carries exactly the private-mode argument of the browser
\* iff incognito is asked and the browser is neither safari nor default.
C8_LaunchMapping ==
    \A p \in Procs :
        ( /\ proc[p].cmd \in {"open", "search"}
          /\ proc[p].pc = "ready"
          /\ proc[p].err = "LaunchError" \/ (proc[p].exit = 0 /\ proc[p].arg1 # <<>>) )
        => /\ launch.called
           /\ LET b == loadConfig(file).settings.browser
              IN  (b.t = "str" /\ b.s \in BrowserIds)
                  => /\ (launch.app = NoApp) <=> (b.s = <<"d", "e", "f", "a", "u", "l", "t">>)
                     /\ launch.arguments =
                            IF proc[p].incognito /\ b.s \in DOMAIN ExpectedPrivateArg
                            THEN <<ExpectedPrivateArg[b.s]>> ELSE <<>>

\* an incognito launch with the browser set to edge
C8_Witness ==
    /\ launch.called
    /\ loadConfig(file).settings.browser = JStr(<<"e", "d", "g", "e">>)
    /\ launch.app = <<"m", "s", "e", "d", "g", "e">>
    /\ launch.arguments = <<<<"-", "-", "i", "n", "p", "r", "i", "v", "a", "t", "e">>>>
    /\ \E p \in Procs : proc[p].incognito /\ Succeeded(p)

\* C9: when a save completes, the file holds exactly the document that
\* invocation wrote, whatever other invocation is saving at the same time.
C9_LastWriterWins ==
    [][\A p \in Procs :
          (proc[p].pc = "save_write" /\ proc'[p].pc = "ready" /\ proc'[p].exit = 0)
          => file' = TextOf(Stringify(proc[p].cfg))]_vars

\* C10: every URL handed to open is one validateUrl accepts.
C10_OnlyValidatedLaunched == launch.called => validateUrl(launch.target).ok
====
